---------------------------- MODULE Spec2Model ----------------------------
(***************************************************************************)
(* Model of angr/engines/remote_syscall.py: SimEngineRemoteSyscall, the    *)
(* mixin that dispatches a system call either to the next mixin in the     *)
(* hierarchy (local modelling) or to the remote syscall agent (Bureau).    *)
(*                                                                         *)
(* One behaviour is one call of process_successors(successors) on one      *)
(* state.  The collaborators the method reads (history, solver, OS model,  *)
(* syscall tables, calling convention) are inputs fixed by Init; the       *)
(* answer of the remote agent is chosen when the call is made.             *)
(***************************************************************************)
EXTENDS Integers, Sequences, FiniteSets, TLC

\* Largest number of arguments a syscall prototype declares in the model.
MaxArgs == 3

(***************************************************************************)
(* Python values                                                           *)
(***************************************************************************)
None == "None"

\* A Python str is modelled as the sequence of its characters, so that
\* str.startswith is computed and not assumed.
Ijk_Sys == <<"I", "j", "k", "_", "S", "y", "s">>

Ijk_Sys_syscall == Ijk_Sys \o <<"_", "s", "y", "s", "c", "a", "l", "l">>

Ijk_Boring == <<"I", "j", "k", "_", "B", "o", "r", "i", "n", "g">>

\* str.startswith(prefix)
startswith(s, prefix) ==
    /\ Len(s) >= Len(prefix)
    /\ SubSeq(s, 1, Len(prefix)) = prefix

\* The shapes of state.history the guard of process_successors tells apart:
\* no history, no parent, a parent without jumpkind, a parent with one.
Histories ==
    { [history |-> FALSE, parent |-> FALSE, jumpkind |-> <<>>],
      [history |-> TRUE,  parent |-> FALSE, jumpkind |-> <<>>],
      [history |-> TRUE,  parent |-> TRUE,  jumpkind |-> <<>>],
      [history |-> TRUE,  parent |-> TRUE,  jumpkind |-> Ijk_Boring],
      [history |-> TRUE,  parent |-> TRUE,  jumpkind |-> Ijk_Sys_syscall] }

(***************************************************************************)
(* Solver: an expression is its syntactic kind (does it contain symbolic   *)
(* variables) and the set of values it can take under the constraints.     *)
(***************************************************************************)
Conc(v) == [symbolic |-> FALSE, vals |-> {v}]

Sym(vs) == [symbolic |-> TRUE, vals |-> vs]

\* state.solver.symbolic(e): the expression contains symbolic variables.
solver_symbolic(e) == e.symbolic

\* state.solver.eval_one(e) raises SimSolverError unless exactly one value.
eval_one_raises(e) == Cardinality(e.vals) # 1

\* state.solver.eval_one(e), when it does not raise.
eval_one(e) == CHOOSE v \in e.vals : TRUE

\* Syscall numbers the model draws from.
SyscallNums == {0, 299, 300, 599, 600}

\* Syscall-number expressions of a state: every symbolic expression of an
\* unsatisfiable state has no value.
NumExprs(satisfiable) ==
    { Conc(n) : n \in SyscallNums } \cup
    (IF satisfiable THEN { Sym({299}), Sym({0, 300}) } ELSE { Sym({}) })

\* Argument expressions of a state.
ArgExprs(satisfiable) ==
    { Conc(7), Conc(8) } \cup
    (IF satisfiable THEN { Sym({9}), Sym({7, 8}) } ELSE { Sym({}) })

(***************************************************************************)
(* OS model: simos.syscall_abi(state) and simos.syscall_abis, a dict       *)
(* abi -> (table, min_syscall_num, max_syscall_num) in insertion order.    *)
(***************************************************************************)
AbiHints == { None, "amd64" }

AbiDecl(a, lo, hi) == [abi |-> a, min |-> lo, max |-> hi]

SyscallAbisChoices ==
    { << >>,
      << AbiDecl("arm", 0, 300) >>,
      << AbiDecl("mips-o32", 0, 300), AbiDecl("mips-n32", 300, 600) >>,
      << AbiDecl("amd64", 299, 600), AbiDecl("i386", 0, 300) >> }

(***************************************************************************)
(* Syscall library: number -> name per ABI, and (abi, name) -> prototype.  *)
(***************************************************************************)
\* lib.syscall_number_mapping[abi].get(num)
syscall_number_mapping(abi, num) ==
    CASE abi = "amd64" ->
           (CASE num = 0   -> "read"
              [] num = 299 -> "open"
              [] num = 300 -> "set_thread_area"
              [] num = 599 -> "exit"
              [] OTHER     -> None)
      [] abi = "i386" ->
           (CASE num = 0   -> "getpid"
              [] num = 299 -> "open"
              [] num = 300 -> "vendor_call"
              [] num = 599 -> "ioctl"
              [] OTHER     -> None)
      [] abi = "arm" ->
           (CASE num = 0   -> "write"
              [] num = 299 -> "open"
              [] num = 300 -> "set_thread_area"
              [] num = 599 -> "vendor_call"
              [] OTHER     -> None)
      [] abi = "mips-o32" ->
           (CASE num = 0   -> "getpid"
              [] num = 299 -> "ioctl"
              [] OTHER     -> None)
      [] abi = "mips-n32" ->
           (CASE num = 300 -> "set_thread_area"
              [] OTHER     -> None)
      [] OTHER -> None

\* A prototype is modelled by its ordered argument-type list.
LongArgs(n) == [i \in 1..n |-> "long"]

\* lib.get_prototype(abi, name, arch): << >> models None, << args >> a
\* prototype whose .args is args.
get_prototype(abi, name) ==
    CASE name = "getpid"          -> << LongArgs(0) >>
      [] name = "set_thread_area" -> << LongArgs(1) >>
      [] name = "open"            -> << LongArgs(2) >>
      [] name = "ioctl"           -> << LongArgs(MaxArgs) >>
      [] name = "read"            -> << LongArgs(MaxArgs) >>
      [] name = "write"           -> << LongArgs(MaxArgs) >>
      [] OTHER                    -> << >>

(***************************************************************************)
(* Bypass lists                                                            *)
(***************************************************************************)
BASE_SYSCALL_BYPASS_LIST ==
    { "mmap", "munmap", "brk", "write", "read", "exit", "exit_group" }

\* dict.get(abi, default) on SYSCALL_BYPASS_LISTS
SYSCALL_BYPASS_LISTS(abi) ==
    CASE abi \in { "amd64", "i386" } -> BASE_SYSCALL_BYPASS_LIST
      [] abi \in { "mips-n32", "mips-o32", "mips-n64" } ->
           BASE_SYSCALL_BYPASS_LIST \cup { "set_thread_area" }
      [] OTHER -> BASE_SYSCALL_BYPASS_LIST

\* Variant: the per-ABI lists are ignored, only the base list is consulted.
is_bypassed_base_only(abi, name) == name \in BASE_SYSCALL_BYPASS_LIST

\* syscall_name in syscall_blacklist, with
\* syscall_blacklist = SYSCALL_BYPASS_LISTS.get(abi, BASE_SYSCALL_BYPASS_LIST)
is_bypassed(abi, name) == name \in SYSCALL_BYPASS_LISTS(abi)

(***************************************************************************)
(* _syscall_abi                                                            *)
(***************************************************************************)
\* The exception _syscall_abi raises, as a result value.
AngrSyscallError == "AngrSyscallError"

\* Variant: the upper end of the range is included.
in_abi_range_closed(lo, num, hi) == lo <= num /\ num <= hi

\* min_syscall_num <= num < max_syscall_num
in_abi_range(lo, num, hi) == lo <= num /\ num < hi

\* for abi, (_, min, max) in syscall_abis.items(): the first ABI, from
\* position i on, whose range holds num; AngrSyscallError when none does.
RECURSIVE scan_abis(_, _, _)
scan_abis(syscall_abis, i, num) ==
    IF i > Len(syscall_abis)
    THEN AngrSyscallError
    ELSE IF in_abi_range(syscall_abis[i].min, num, syscall_abis[i].max)
         THEN syscall_abis[i].abi
         ELSE scan_abis(syscall_abis, i + 1, num)

\* Variant: a lone declared ABI is range-checked like any other.
_syscall_abi_always_scans(hint, syscall_abis, num) ==
    IF hint # None
    THEN hint
    ELSE scan_abis(syscall_abis, 1, num)

\* _syscall_abi(state, num), with hint = simos.syscall_abi(state)
_syscall_abi(hint, syscall_abis, num) ==
    IF hint # None
    THEN hint
    ELSE IF Len(syscall_abis) = 1
         THEN syscall_abis[1].abi
         ELSE scan_abis(syscall_abis, 1, num)

(***************************************************************************)
(* State                                                                   *)
(***************************************************************************)
VARIABLES
    history,        \* state.history, as far as the guard reads it
    satisfiable,    \* state.solver.satisfiable()
    bypass_option,  \* BYPASS_UNSUPPORTED_SYSCALL in state.options
    syscall_num,    \* syscall_cc.syscall_num(state), an expression
    cc_args,        \* syscall_cc.arg(state, i), i = 0 .. MaxArgs-1
    abi_hint,       \* simos.syscall_abi(state)
    syscall_abis,   \* simos.syscall_abis
    pc,             \* the statement process_successors is at, or its outcome
    num,            \* local: the concrete syscall number
    syscall_abi,    \* local
    syscall_name,   \* local
    syscall_proto,  \* local
    args,           \* local: the concretized arguments so far
    succ_state,     \* local: what bureau.invoke_syscall returned
    successors,     \* the SimSuccessors record handed in
    scratch,        \* state.scratch.sim_procedure, history.recent_block_count
    inspect_events, \* the state._inspect calls made, in order
    bureau_calls,   \* the bureau.invoke_syscall calls made, in order
    super_calls,    \* number of super().process_successors delegations
    error,          \* the exception process_successors raised, if any
    entry,          \* successors and scratch as they were on entry
    first           \* what an earlier attempt on a copy of this state gave

inputs == << history, satisfiable, bypass_option, syscall_num, cc_args,
             abi_hint, syscall_abis, entry, first >>

locals == << num, syscall_abi, syscall_name, syscall_proto, args,
            succ_state >>

effects == << successors, scratch, inspect_events, bureau_calls >>

vars == << inputs, locals, effects, pc, super_calls, error >>

\* A fresh SimSuccessors.
NewSuccessors ==
    [ sort        |-> None,
      artifacts   |-> << >>,
      description |-> << >>,
      processed   |-> FALSE,
      successors  |-> << >> ]

\* Scratch bookkeeping a state can enter with.
ScratchChoices ==
    { [sim_procedure |-> None,            recent_block_count |-> 1],
      [sim_procedure |-> "SimProcedure0", recent_block_count |-> 4] }

NoError == "no error"

Init ==
    /\ history \in Histories
    /\ satisfiable \in BOOLEAN
    /\ bypass_option \in BOOLEAN
    /\ syscall_num \in NumExprs(satisfiable)
    /\ cc_args \in [0 .. MaxArgs - 1 -> ArgExprs(satisfiable)]
    /\ abi_hint \in AbiHints
    /\ syscall_abis \in SyscallAbisChoices
    /\ scratch \in ScratchChoices
    /\ successors = NewSuccessors
    /\ entry = [successors |-> successors, scratch |-> scratch]
    /\ pc = "ENTRY"
    /\ num = -1
    /\ syscall_abi = None
    /\ syscall_name = None
    /\ syscall_proto = << >>
    /\ args = << >>
    /\ succ_state = None
    /\ inspect_events = << >>
    /\ bureau_calls = << >>
    /\ super_calls = 0
    /\ error = NoError
    /\ first = << >>

(***************************************************************************)
(* process_successors, statement by statement                              *)
(***************************************************************************)
\* return super().process_successors(successors, **kwargs)
Super ==
    /\ pc' = "LOCAL"
    /\ super_calls' = super_calls + 1
    /\ error' = error

\* raise exc.  The AngrUnsupportedSyscallError instances, which the code
\* tells apart by message only, are named by their classification:
\* AmbiguousSyscallNumber (line 69), UnsatisfiableState (74),
\* SymbolicSyscallNumber (76), UnknownSyscallNumber (86), UnknownPrototype
\* (99); UnresolvedAbi is the AngrSyscallError of line 169 and BureauError
\* an exception leaving bureau.invoke_syscall.
Raise(exc) ==
    /\ pc' = "FATAL"
    /\ error' = exc
    /\ super_calls' = super_calls

\* fall through to the statement at label
Goto(label) ==
    /\ pc' = label
    /\ error' = error
    /\ super_calls' = super_calls

\* Variant: any jump kind of the parent passes the guard.
is_syscall_trap_any_jumpkind(h) ==
    /\ h.history
    /\ h.parent
    /\ h.jumpkind # << >>

\* The guard: the previous step was a system-call trap.
is_syscall_trap(h) ==
    /\ h.history
    /\ h.parent
    /\ h.jumpkind # << >>
    /\ startswith(h.jumpkind, Ijk_Sys)

CheckTrap ==
    /\ pc = "ENTRY"
    /\ IF ~ is_syscall_trap(history) THEN Super ELSE Goto("eval_num")
    /\ UNCHANGED << inputs, locals, effects >>

\* Variant: the satisfiability test is inverted.
num_error_inverted(option, sat) ==
    IF ~ option
    THEN "AmbiguousSyscallNumber"
    ELSE IF sat THEN "UnsatisfiableState" ELSE "SymbolicSyscallNumber"

\* The exception the except-branch of eval_one(syscall_num) raises.
num_error(option, sat) ==
    IF ~ option
    THEN "AmbiguousSyscallNumber"
    ELSE IF ~ sat THEN "UnsatisfiableState" ELSE "SymbolicSyscallNumber"

EvalNum ==
    /\ pc = "eval_num"
    /\ IF eval_one_raises(syscall_num)
       THEN /\ Raise(num_error(bypass_option, satisfiable))
            /\ num' = num
       ELSE /\ Goto("syscall_abi")
            /\ num' = eval_one(syscall_num)
    /\ UNCHANGED << inputs, syscall_abi, syscall_name, syscall_proto, args,
                    succ_state, effects >>

\* Variant: with the option set, an unresolved ABI is handed to the next
\* mixin.
ResolveAbi_tolerant ==
    /\ pc = "syscall_abi"
    /\ LET r == _syscall_abi(abi_hint, syscall_abis, num) IN
       IF r = AngrSyscallError
       THEN /\ IF bypass_option THEN Super ELSE Raise("UnresolvedAbi")
            /\ syscall_abi' = syscall_abi
       ELSE /\ Goto("lookup_name")
            /\ syscall_abi' = r
    /\ UNCHANGED << inputs, num, syscall_name, syscall_proto, args,
                    succ_state, effects >>

ResolveAbi ==
    /\ pc = "syscall_abi"
    /\ LET r == _syscall_abi(abi_hint, syscall_abis, num) IN
       IF r = AngrSyscallError
       THEN /\ Raise("UnresolvedAbi")
            /\ syscall_abi' = syscall_abi
       ELSE /\ Goto("lookup_name")
            /\ syscall_abi' = r
    /\ UNCHANGED << inputs, num, syscall_name, syscall_proto, args,
                    succ_state, effects >>

\* The exception raised for a missing table entry.
unsupported_error(option, classified) ==
    IF ~ option THEN classified ELSE "NotImplementedError"

\* Variant: a missing name is handed to the next mixin.
LookupName_delegates ==
    /\ pc = "lookup_name"
    /\ LET n == syscall_number_mapping(syscall_abi, num) IN
       /\ syscall_name' = n
       /\ IF n = None THEN Super ELSE Goto("check_bypass")
    /\ UNCHANGED << inputs, num, syscall_abi, syscall_proto, args,
                    succ_state, effects >>

LookupName ==
    /\ pc = "lookup_name"
    /\ LET n == syscall_number_mapping(syscall_abi, num) IN
       /\ syscall_name' = n
       /\ IF n = None
          THEN Raise(unsupported_error(bypass_option, "UnknownSyscallNumber"))
          ELSE Goto("check_bypass")
    /\ UNCHANGED << inputs, num, syscall_abi, syscall_proto, args,
                    succ_state, effects >>

\* Variant: the next mixin is called without returning its result.
CheckBypass_without_return ==
    /\ pc = "check_bypass"
    /\ IF is_bypassed(syscall_abi, syscall_name)
       THEN /\ pc' = "lookup_proto"
            /\ super_calls' = super_calls + 1
            /\ error' = error
       ELSE Goto("lookup_proto")
    /\ UNCHANGED << inputs, locals, effects >>

\* Variant: the prototype is required before the bypass list is consulted.
CheckBypass_after_prototype ==
    /\ pc = "check_bypass"
    /\ IF get_prototype(syscall_abi, syscall_name) = << >>
       THEN Raise(unsupported_error(bypass_option, "UnknownPrototype"))
       ELSE IF is_bypassed(syscall_abi, syscall_name)
            THEN Super
            ELSE Goto("lookup_proto")
    /\ UNCHANGED << inputs, locals, effects >>

CheckBypass ==
    /\ pc = "check_bypass"
    /\ IF is_bypassed(syscall_abi, syscall_name)
       THEN Super
       ELSE Goto("lookup_proto")
    /\ UNCHANGED << inputs, locals, effects >>

LookupProto ==
    /\ pc = "lookup_proto"
    /\ LET p == get_prototype(syscall_abi, syscall_name) IN
       /\ syscall_proto' = p
       /\ IF p = << >>
          THEN Raise(unsupported_error(bypass_option, "UnknownPrototype"))
          ELSE Goto("extract_args")
    /\ UNCHANGED << inputs, num, syscall_abi, syscall_name, args,
                    succ_state, effects >>

\* Variant: eval_one is tried on every argument, symbolic or not, and only
\* its failure hands the call to the next mixin.
ExtractArg_eval_first ==
    /\ pc = "extract_args"
    /\ LET arg_idx == Len(args) IN
       IF arg_idx >= Len(syscall_proto[1])
       THEN /\ Goto("fill_artifacts")
            /\ args' = args
       ELSE IF ~ eval_one_raises(cc_args[arg_idx])
            THEN /\ Goto("extract_args")
                 /\ args' = Append(args, eval_one(cc_args[arg_idx]))
            ELSE /\ Super
                 /\ args' = args
    /\ UNCHANGED << inputs, num, syscall_abi, syscall_name, syscall_proto,
                    succ_state, effects >>

\* Variant: the scratch area is reset before the fallback is taken.
ExtractArg_resets_scratch ==
    /\ pc = "extract_args"
    /\ LET arg_idx == Len(args) IN
       IF arg_idx >= Len(syscall_proto[1])
       THEN /\ Goto("fill_artifacts")
            /\ args' = args
            /\ scratch' = scratch
       ELSE IF ~ solver_symbolic(cc_args[arg_idx])
            THEN /\ Goto("extract_args")
                 /\ args' = Append(args, eval_one(cc_args[arg_idx]))
                 /\ scratch' = scratch
            ELSE /\ Super
                 /\ args' = args
                 /\ scratch' = [sim_procedure |-> None,
                                recent_block_count |-> 1]
    /\ UNCHANGED << inputs, num, syscall_abi, syscall_name, syscall_proto,
                    succ_state, successors, inspect_events, bureau_calls >>

\* Variant: each value is put in front of the list.
ExtractArg_prepends ==
    /\ pc = "extract_args"
    /\ LET arg_idx == Len(args) IN
       IF arg_idx >= Len(syscall_proto[1])
       THEN /\ Goto("fill_artifacts")
            /\ args' = args
       ELSE IF ~ solver_symbolic(cc_args[arg_idx])
            THEN /\ Goto("extract_args")
                 /\ args' = << eval_one(cc_args[arg_idx]) >> \o args
            ELSE /\ Super
                 /\ args' = args
    /\ UNCHANGED << inputs, num, syscall_abi, syscall_name, syscall_proto,
                    succ_state, effects >>

\* One iteration of the argument loop, or its end.
ExtractArg ==
    /\ pc = "extract_args"
    /\ LET arg_idx == Len(args) IN
       IF arg_idx >= Len(syscall_proto[1])
       THEN /\ Goto("fill_artifacts")
            /\ args' = args
       ELSE IF ~ solver_symbolic(cc_args[arg_idx])
            THEN /\ Goto("extract_args")
                 /\ args' = Append(args, eval_one(cc_args[arg_idx]))
            ELSE /\ Super
                 /\ args' = args
    /\ UNCHANGED << inputs, num, syscall_abi, syscall_name, syscall_proto,
                    succ_state, effects >>

\* d[k] = v on a Python dict
SetItem(d, k, v) ==
    [x \in (DOMAIN d) \cup {k} |-> IF x = k THEN v ELSE d[x]]

\* Variant: the is_syscall artifact is not set.
fill_artifacts_without_flag(artifacts, name) ==
    SetItem(SetItem(SetItem(artifacts,
        "name", name), "no_ret", FALSE), "adds_exits", TRUE)

\* successors.artifacts after the four assignments
fill_artifacts(artifacts, name) ==
    SetItem(SetItem(SetItem(SetItem(artifacts,
        "is_syscall", TRUE), "name", name), "no_ret", FALSE),
        "adds_exits", TRUE)

\* Variant: the scratch area is left as it is.
FillArtifacts_keeps_scratch ==
    /\ pc = "fill_artifacts"
    /\ successors' =
         [successors EXCEPT
            !.sort = "SimProcedure",
            !.artifacts = fill_artifacts(successors.artifacts, syscall_name)]
    /\ Goto("inspect_before")
    /\ UNCHANGED << inputs, locals, scratch, inspect_events, bureau_calls >>

\* successors.sort, the artifacts, state.scratch and the block count
FillArtifacts ==
    /\ pc = "fill_artifacts"
    /\ successors' =
         [successors EXCEPT
            !.sort = "SimProcedure",
            !.artifacts = fill_artifacts(successors.artifacts, syscall_name)]
    /\ scratch' = [sim_procedure |-> None, recent_block_count |-> 1]
    /\ Goto("inspect_before")
    /\ UNCHANGED << inputs, locals, inspect_events, bureau_calls >>

\* state._inspect('syscall', when, syscall_name=name)
inspect_event(when, name) ==
    [event |-> "syscall", when |-> when, syscall_name |-> name]

InspectBefore ==
    /\ pc = "inspect_before"
    /\ inspect_events' =
         Append(inspect_events, inspect_event("BP_BEFORE", syscall_name))
    /\ Goto("invoke_syscall")
    /\ UNCHANGED << inputs, locals, successors, scratch, bureau_calls >>

\* What the agent can answer: a new state, or an error (an exception that
\* process_successors does not catch).
BureauAnswers == { "succ_state", "error" }

\* succ_state = self.project.bureau.invoke_syscall(state, num, args, cc)
InvokeSyscall ==
    /\ pc = "invoke_syscall"
    /\ bureau_calls' = Append(bureau_calls, [num |-> num, args |-> args])
    /\ \E answer \in BureauAnswers :
         IF answer = "error"
         THEN /\ Raise("BureauError")
              /\ succ_state' = succ_state
         ELSE /\ Goto("add_successor")
              /\ succ_state' = answer
    /\ UNCHANGED << inputs, num, syscall_abi, syscall_name, syscall_proto,
                    args, successors, scratch, inspect_events >>

\* syscall_cc.return_addr.get_value(state)
return_addr == "return_addr"

\* The successor add_successor(state, target, guard, jumpkind) records.
new_successor(st, target, guard, jumpkind) ==
    [state |-> st, target |-> target, guard |-> guard, jumpkind |-> jumpkind]

\* Variant: the successor is added as a call.
remote_successor_as_call(st) ==
    new_successor(st, return_addr, "claripy.true", "Ijk_Call")

\* The successor process_successors adds.
remote_successor(st) ==
    new_successor(st, return_addr, "claripy.true", "Ijk_Ret")

AddSuccessor ==
    /\ pc = "add_successor"
    /\ successors' =
         [successors EXCEPT
            !.successors = Append(@, remote_successor(succ_state))]
    /\ Goto("inspect_after")
    /\ UNCHANGED << inputs, locals, scratch, inspect_events, bureau_calls >>

\* Variant: the event after the call is reported as a second 'before'.
InspectAfter_reports_before ==
    /\ pc = "inspect_after"
    /\ inspect_events' =
         Append(inspect_events, inspect_event("BP_BEFORE", syscall_name))
    /\ Goto("finish")
    /\ UNCHANGED << inputs, locals, successors, scratch, bureau_calls >>

InspectAfter ==
    /\ pc = "inspect_after"
    /\ inspect_events' =
         Append(inspect_events, inspect_event("BP_AFTER", syscall_name))
    /\ Goto("finish")
    /\ UNCHANGED << inputs, locals, successors, scratch, bureau_calls >>

\* 'SimProcedure ' + syscall_name + ' (syscall)', as its three pieces
description_of(name) == << "SimProcedure ", name, " (syscall)" >>

\* Variant: the description names the procedure by the identity of an object,
\* which differs from one call to the next.
Finish_describes_identity ==
    /\ pc = "finish"
    /\ \E id \in { "0x7f01", "0x7f02" } :
         successors' =
           [successors EXCEPT
              !.description = Append(description_of(syscall_name), id),
              !.processed = TRUE]
    /\ Goto("DONE")
    /\ UNCHANGED << inputs, locals, scratch, inspect_events, bureau_calls >>

Finish ==
    /\ pc = "finish"
    /\ successors' =
         [successors EXCEPT
            !.description = description_of(syscall_name),
            !.processed = TRUE]
    /\ Goto("DONE")
    /\ UNCHANGED << inputs, locals, scratch, inspect_events, bureau_calls >>

Next ==
    \/ CheckTrap
    \/ EvalNum
    \/ ResolveAbi
    \/ LookupName
    \/ CheckBypass
    \/ LookupProto
    \/ ExtractArg
    \/ FillArtifacts
    \/ InspectBefore
    \/ InvokeSyscall
    \/ AddSuccessor
    \/ InspectAfter
    \/ Finish

Spec == Init /\ [][Next]_vars

(***************************************************************************)
(* Properties                                                              *)
(***************************************************************************)
Terminal == { "LOCAL", "FATAL", "DONE" }

\* The bypass set as the documentation states it: the list of the ABI, and
\* the base set for an ABI that has no list of its own.
DocumentedBaseSet ==
    { "mmap", "munmap", "brk", "write", "read", "exit", "exit_group" }

DocumentedBypassSet(abi) ==
    IF abi \in { "mips-n32", "mips-o32", "mips-n64" }
    THEN DocumentedBaseSet \cup { "set_thread_area" }
    ELSE DocumentedBaseSet

\* The statements up to and including the bypass test have been executed.
PastBypassCheck ==
    pc \notin { "ENTRY", "eval_num", "syscall_abi", "lookup_name",
                "check_bypass" }

\* No successor has been added to the record since entry.
NoSuccessorAdded == successors.successors = entry.successors.successors

\* Exactly one successor has been added to the record since entry.
OneSuccessorAdded ==
    /\ Len(successors.successors) = Len(entry.successors.successors) + 1
    /\ SubSeq(successors.successors, 1, Len(entry.successors.successors))
         = entry.successors.successors

\* C1: once the name resolved for a concrete syscall number is found to be in
\* the bypass set of the resolved ABI, the attempt is in LOCAL: the agent has
\* not been invoked and no successor has been added, whatever the arguments.
C1_BypassedGoesLocal ==
    ( /\ PastBypassCheck
      /\ syscall_name # None
      /\ syscall_name \in DocumentedBypassSet(syscall_abi) )
    => ( /\ pc = "LOCAL"
         /\ super_calls = 1
         /\ bureau_calls = << >>
         /\ NoSuccessorAdded )

\* A bypassed syscall of an ABI without a list of its own, with a symbolic
\* first argument, has been handed to the next mixin.
C1_Witness ==
    /\ pc = "LOCAL"
    /\ syscall_abi = "arm"
    /\ syscall_name = "write"
    /\ cc_args[0].symbolic

\* Every argument the prototype declares is a concrete expression (one that
\* holds no symbolic variable).
AllArgsConcrete ==
    \A i \in 0 .. Len(syscall_proto[1]) - 1 : ~ cc_args[i].symbolic

\* C2: an attempt with a concrete number, a found and non-bypassed name, a
\* found prototype, concrete argument expressions and an agent that returned
\* a state ends in DONE with exactly one successor added, of jump kind
\* Ijk_Ret, guard true and the return address as target, processed set and
\* the syscall name in the description.
C2_ConcreteCallIsDone ==
    ( /\ pc \in Terminal
      /\ num # -1
      /\ syscall_name # None
      /\ syscall_name \notin DocumentedBypassSet(syscall_abi)
      /\ syscall_proto # << >>
      /\ AllArgsConcrete
      /\ error # "BureauError" )
    => ( /\ pc = "DONE"
         /\ OneSuccessorAdded
         /\ LET s == successors.successors[Len(successors.successors)] IN
              /\ s.jumpkind = "Ijk_Ret"
              /\ s.guard = "claripy.true"
              /\ s.target = return_addr
              /\ s.state = succ_state
         /\ successors.processed = TRUE
         /\ \E i \in 1 .. Len(successors.description) :
              successors.description[i] = syscall_name )

\* A three-argument syscall with concrete arguments has been executed
\* remotely.
C2_Witness ==
    /\ pc = "DONE"
    /\ syscall_name = "ioctl"
    /\ Len(args) = MaxArgs
    /\ Len(bureau_calls) = 1

\* Some argument the prototype declares is a symbolic expression.
SomeArgSymbolic ==
    \E i \in 0 .. Len(syscall_proto[1]) - 1 : cc_args[i].symbolic

\* C3: with a prototype found and a symbolic argument at any position, the
\* attempt is still extracting arguments or is in LOCAL; the agent is never
\* invoked and no error is raised.
C3_SymbolicArgGoesLocal ==
    ( /\ syscall_proto # << >>
      /\ SomeArgSymbolic )
    => ( /\ pc \in { "extract_args", "LOCAL" }
         /\ bureau_calls = << >>
         /\ error = NoError )

\* The fallback was taken at a middle argument, after the first argument had
\* been concretized, for an argument with several values.
C3_Witness ==
    /\ pc = "LOCAL"
    /\ syscall_proto # << >>
    /\ Len(syscall_proto[1]) = 3
    /\ Len(args) = 1
    /\ Cardinality(cc_args[1].vals) > 1
    /\ ~ cc_args[2].symbolic

\* _syscall_abi has returned or raised.
AbiResolutionDone ==
    /\ num # -1
    /\ pc # "syscall_abi"

\* The positions of the declared ABIs whose half-open range holds num.
RangesHolding(n) ==
    { i \in 1 .. Len(syscall_abis) :
        syscall_abis[i].min <= n /\ n < syscall_abis[i].max }

\* The declaration with ranges [0,300) and [300,600).
TwoRanges ==
    << AbiDecl("mips-o32", 0, 300), AbiDecl("mips-n32", 300, 600) >>

\* C4: without a hint and with more than one declared ABI, the ABI returned
\* is one whose range [min, max) holds the number, and AngrSyscallError
\* (UnresolvedAbi) is raised exactly when no range holds it; with [0,300) and
\* [300,600): 0, 299 give the first ABI, 300, 599 the second, 600 fails.
C4_RangeScanHalfOpen ==
    ( /\ AbiResolutionDone
      /\ abi_hint = None
      /\ Len(syscall_abis) > 1 )
    => ( /\ (RangesHolding(num) = {}) <=> (error = "UnresolvedAbi")
         /\ RangesHolding(num) # {} =>
              \E i \in RangesHolding(num) : syscall_abi = syscall_abis[i].abi
         /\ syscall_abis = TwoRanges =>
              /\ num \in { 0, 299 } => syscall_abi = "mips-o32"
              /\ num \in { 300, 599 } => syscall_abi = "mips-n32"
              /\ num = 600 => pc = "FATAL" /\ error = "UnresolvedAbi" )

\* The boundary number 300 was resolved to the second of the two ranges.
C4_Witness ==
    /\ AbiResolutionDone
    /\ abi_hint = None
    /\ syscall_abis = TwoRanges
    /\ num = 300
    /\ syscall_abi = "mips-n32"

\* C5: a hint of the OS model is returned whatever the declared ranges are;
\* without a hint, a lone declared ABI is returned for every number; in both
\* cases UnresolvedAbi is not raised.
C5_HintThenSingleAbi ==
    AbiResolutionDone
    => ( /\ abi_hint # None =>
              syscall_abi = abi_hint /\ error # "UnresolvedAbi"
         /\ (abi_hint = None /\ Len(syscall_abis) = 1) =>
              syscall_abi = syscall_abis[1].abi /\ error # "UnresolvedAbi" )

\* The lone declared ABI was returned for a number outside its range.
C5_Witness ==
    /\ AbiResolutionDone
    /\ abi_hint = None
    /\ Len(syscall_abis) = 1
    /\ RangesHolding(num) = {}
    /\ syscall_abi = syscall_abis[1].abi

\* The number-to-name lookup has been made on a resolved ABI.
NameLookupDone ==
    /\ syscall_abi # None
    /\ pc # "lookup_name"

\* C6: a number without a name in the table of the resolved ABI, with the
\* bypass-unsupported-syscalls option not set, ends in FATAL
\* (UnknownSyscallNumber): no successor, no remote call, no delegation.
C6_UnknownNumberIsFatal ==
    ( /\ NameLookupDone
      /\ syscall_number_mapping(syscall_abi, num) = None
      /\ ~ bypass_option )
    => ( /\ pc = "FATAL"
         /\ error = "UnknownSyscallNumber"
         /\ NoSuccessorAdded
         /\ bureau_calls = << >>
         /\ super_calls = 0 )

\* An unnamed number inside a declared range was rejected.
C6_Witness ==
    /\ pc = "FATAL"
    /\ error = "UnknownSyscallNumber"
    /\ syscall_abi = "mips-n32"
    /\ num = 599
    /\ abi_hint = None
    /\ RangesHolding(num) # {}

\* The table entry the attempt needs is missing: the name of the number, or
\* the prototype of a name that is not bypassed.
TableEntryMissing ==
    \/ /\ NameLookupDone
       /\ syscall_number_mapping(syscall_abi, num) = None
    \/ /\ PastBypassCheck
       /\ pc # "lookup_proto"
       /\ syscall_name # None
       /\ syscall_name \notin DocumentedBypassSet(syscall_abi)
       /\ get_prototype(syscall_abi, syscall_name) = << >>

\* C7: a missing name or prototype with the bypass-unsupported-syscalls
\* option set is recovered by fallback: the attempt is in LOCAL, no error is
\* raised and the agent is not invoked.
C7_ToleratedMissingEntryGoesLocal ==
    ( /\ TableEntryMissing
      /\ bypass_option )
    => ( /\ pc = "LOCAL"
         /\ error = NoError
         /\ bureau_calls = << >> )

\* The record and the bookkeeping are as they were on entry and this method
\* has emitted no instrumentation event.
LeftAsOnEntry ==
    /\ successors.sort = entry.successors.sort
    /\ successors.artifacts = entry.successors.artifacts
    /\ successors.description = entry.successors.description
    /\ successors.processed = entry.successors.processed
    /\ successors.successors = entry.successors.successors
    /\ scratch.sim_procedure = entry.scratch.sim_procedure
    /\ scratch.recent_block_count = entry.scratch.recent_block_count
    /\ inspect_events = << >>

\* C8: an attempt in LOCAL (no syscall trap, bypassed name, symbolic
\* argument) has left the successor record, the scratch bookkeeping and the
\* instrumentation as they were on entry.
C8_LocalLeavesNoTrace ==
    pc = "LOCAL" => LeftAsOnEntry

\* The fallback was taken at the last of three arguments, two having been
\* concretized, on a state that entered with a procedure marker and a block
\* count the commit path would have overwritten.
C8_Witness ==
    /\ pc = "LOCAL"
    /\ Len(args) = 2
    /\ cc_args[2].symbolic
    /\ entry.scratch.sim_procedure # None
    /\ entry.scratch.recent_block_count # 1

\* Sort tag, artifacts and scratch bookkeeping are as on entry.
ArtifactsUnmodified ==
    /\ successors.sort = entry.successors.sort
    /\ successors.artifacts = entry.successors.artifacts
    /\ scratch = entry.scratch

\* C9: at the end of every attempt, the agent answering with an error
\* included, either (a) sort, artifacts and scratch are unmodified and no
\* successor was added, or (b) exactly one successor was added and processed
\* is true, and not both.
C9_AbandonOrCommit ==
    pc \in Terminal =>
      LET a == ArtifactsUnmodified /\ NoSuccessorAdded
          b == OneSuccessorAdded /\ successors.processed = TRUE
      IN  (a \/ b) /\ ~ (a /\ b)

\* C10: after a syscall trap, a syscall-number expression without a single
\* value ends in FATAL: AmbiguousSyscallNumber without the option, else
\* UnsatisfiableState for an unsatisfiable state and SymbolicSyscallNumber for
\* a satisfiable one; no ABI, name or prototype is looked up, nothing is
\* delegated and the agent is not invoked.
C10_SymbolicNumberIsFatal ==
    ( /\ history.history /\ history.parent
      /\ history.jumpkind = Ijk_Sys_syscall
      /\ Cardinality(syscall_num.vals) # 1
      /\ pc \notin { "ENTRY", "eval_num" } )
    => ( /\ pc = "FATAL"
         /\ ~ bypass_option => error = "AmbiguousSyscallNumber"
         /\ (bypass_option /\ ~ satisfiable) => error = "UnsatisfiableState"
         /\ (bypass_option /\ satisfiable) => error = "SymbolicSyscallNumber"
         /\ num = -1
         /\ syscall_abi = None
         /\ syscall_name = None
         /\ syscall_proto = << >>
         /\ super_calls = 0
         /\ bureau_calls = << >> )

\* A satisfiable state with a two-valued syscall number and the option set
\* was rejected.
C10_Witness ==
    /\ pc = "FATAL"
    /\ error = "SymbolicSyscallNumber"
    /\ Cardinality(syscall_num.vals) = 2
    /\ satisfiable
    /\ bypass_option

\* The previous step was not a system-call trap: no history, no parent, no
\* jump kind of the parent, or one that does not begin with 'Ijk_Sys'.
NotAfterTrap ==
    \/ ~ history.history
    \/ ~ history.parent
    \/ history.jumpkind = << >>
    \/ history.jumpkind = Ijk_Boring

\* C11: when the previous step was not a system-call trap the attempt goes
\* from ENTRY to LOCAL at once: nothing is evaluated, resolved or looked up,
\* and it is never in FATAL or DONE, whatever the syscall number, the tables
\* and the declared ranges are.
C11_NoTrapGoesLocal ==
    ( /\ NotAfterTrap
      /\ pc # "ENTRY" )
    => ( /\ pc = "LOCAL"
         /\ super_calls = 1
         /\ error = NoError
         /\ num = -1
         /\ syscall_abi = None
         /\ syscall_name = None
         /\ syscall_proto = << >>
         /\ args = << >>
         /\ bureau_calls = << >> )

\* An attempt that followed an ordinary jump was delegated although its
\* syscall number has several values and no ABI is declared.
C11_Witness ==
    /\ pc = "LOCAL"
    /\ history.jumpkind = Ijk_Boring
    /\ Cardinality(syscall_num.vals) > 1
    /\ abi_hint = None
    /\ syscall_abis = << >>

(***************************************************************************)
(* Two attempts on two copies of one state                                 *)
(***************************************************************************)
\* What the agent answered in this attempt: None when it was not invoked.
Answer == IF error = "BureauError" THEN "error" ELSE succ_state

\* What an attempt leaves behind.
Outcome ==
    [ pc             |-> pc,
      error          |-> error,
      answer         |-> Answer,
      successors     |-> successors,
      scratch        |-> scratch,
      inspect_events |-> inspect_events,
      bureau_calls   |-> bureau_calls,
      super_calls    |-> super_calls ]

\* process_successors is called again, on a fresh copy of the state and of
\* the successor record the first call was entered with.
SecondAttempt ==
    /\ pc \in Terminal
    /\ first = << >>
    /\ first' = << Outcome >>
    /\ pc' = "ENTRY"
    /\ successors' = entry.successors
    /\ scratch' = entry.scratch
    /\ num' = -1
    /\ syscall_abi' = None
    /\ syscall_name' = None
    /\ syscall_proto' = << >>
    /\ args' = << >>
    /\ succ_state' = None
    /\ inspect_events' = << >>
    /\ bureau_calls' = << >>
    /\ super_calls' = 0
    /\ error' = NoError
    /\ UNCHANGED << history, satisfiable, bypass_option, syscall_num,
                    cc_args, abi_hint, syscall_abis, entry >>

NextTwice ==
    \/ Next
    \/ SecondAttempt

SpecTwice == Init /\ [][NextTwice]_vars

C13_InvokedOnceWithArtifacts ==
    /\ pc = "DONE" =>
         /\ Len(bureau_calls) = 1
         /\ successors.sort = "SimProcedure"
         /\ DOMAIN successors.artifacts =
              { "is_syscall", "name", "no_ret", "adds_exits" }
         /\ successors.artifacts["is_syscall"] = TRUE
         /\ successors.artifacts["name"] # None
         /\ successors.artifacts["name"]
              = syscall_number_mapping(syscall_abi, num)
         /\ successors.artifacts["no_ret"] = FALSE
         /\ successors.artifacts["adds_exits"] = TRUE
    /\ (pc = "LOCAL" \/ (pc = "FATAL" /\ error # "BureauError")) =>
         bureau_calls = << >>

\* 'open' was executed remotely for the lone ABI 'arm'.
C13_Witness ==
    /\ pc = "DONE"
    /\ syscall_abi = "arm"
    /\ abi_hint = None
    /\ successors.artifacts["name"] = "open"
    /\ Len(bureau_calls) = 1

\* The statements from the first assignment to the record (line 115) on.
CommitLabels ==
    { "inspect_before", "invoke_syscall", "add_successor", "inspect_after",
      "finish", "DONE" }

\* The attempt is on the commit path: past line 125, or stopped by the agent.
OnCommitPath ==
    \/ pc \in CommitLabels
    \/ pc = "FATAL" /\ error = "BureauError"

\* C14: when the agent is about to be invoked, and ever after, the procedure
\* marker is cleared and the recent-block counter is 1; the scratch area is
\* changed on the commit path only, never in an attempt that is in LOCAL.
C14_ScratchResetBeforeCall ==
    /\ (pc = "invoke_syscall" \/ bureau_calls # << >>) =>
         /\ scratch.sim_procedure = None
         /\ scratch.recent_block_count = 1
    /\ scratch # entry.scratch => OnCommitPath
    /\ pc = "LOCAL" => scratch = entry.scratch

\* The agent has been invoked for a state that entered with a procedure
\* marker and a block count of 4.
C14_Witness ==
    /\ bureau_calls # << >>
    /\ entry.scratch.sim_procedure = "SimProcedure0"
    /\ entry.scratch.recent_block_count = 4
    /\ scratch.sim_procedure = None

\* The events of one committed attempt, in order.
CommitEvents(name) ==
    << [event |-> "syscall", when |-> "BP_BEFORE", syscall_name |-> name],
       [event |-> "syscall", when |-> "BP_AFTER", syscall_name |-> name] >>

\* C15: the commit path goes 'syscall, before' (with the name), call of the
\* agent, successor added, 'syscall, after' (same name), processed = True,
\* each at most once and none before its predecessor; in DONE each has
\* happened exactly once; an 'after' is never emitted without the 'before',
\* and no event is emitted in LOCAL or in a FATAL raised before the commit.
C15_CommitOrder ==
    /\ \E n \in 0 .. 2 :
         inspect_events = SubSeq(CommitEvents(syscall_name), 1, n)
    /\ Len(bureau_calls) <= 1
    /\ NoSuccessorAdded \/ OneSuccessorAdded
    /\ bureau_calls # << >> => Len(inspect_events) >= 1
    /\ OneSuccessorAdded => Len(bureau_calls) = 1
    /\ Len(inspect_events) = 2 => OneSuccessorAdded
    /\ successors.processed => Len(inspect_events) = 2
    /\ pc = "DONE" =>
         /\ successors.processed
         /\ inspect_events = CommitEvents(successors.artifacts["name"])
    /\ (pc = "LOCAL" \/ (pc = "FATAL" /\ error # "BureauError")) =>
         inspect_events = << >>

\* Both events of a remotely executed 'ioctl' have been emitted.
C15_Witness ==
    /\ pc = "DONE"
    /\ inspect_events = CommitEvents("ioctl")
    /\ Len(bureau_calls) = 1
    /\ OneSuccessorAdded

\* C16: every call of the agent carries as many arguments as the prototype
\* declares, the i-th being the one value of the i-th argument of the calling
\* convention, and the number the ABI and the name were resolved with, which
\* is the one value of the syscall-number expression.
C16_CallCarriesArgsInOrder ==
    \A k \in 1 .. Len(bureau_calls) :
      LET call == bureau_calls[k] IN
        /\ syscall_proto # << >>
        /\ Len(call.args) = Len(syscall_proto[1])
        /\ \A i \in 1 .. Len(call.args) :
             cc_args[i - 1].vals = { call.args[i] }
        /\ syscall_num.vals = { call.num }
        /\ call.num = num
        /\ syscall_name = syscall_number_mapping(syscall_abi, call.num)

\* The agent was called with three arguments whose order can be told.
C16_Witness ==
    /\ Len(bureau_calls) = 1
    /\ bureau_calls[1].args = << 7, 8, 8 >>
    /\ bureau_calls[1].num = 299
    /\ syscall_name = "ioctl"

\* The argument loop has ended: with a fallback, or with every argument
\* appended.
ArgsExtracted ==
    /\ syscall_proto # << >>
    /\ pc # "extract_args"

\* Some argument the prototype declares does not have exactly one value.
SomeArgNotSingleValued ==
    \E i \in 0 .. Len(syscall_proto[1]) - 1 : Cardinality(cc_args[i].vals) # 1

\* C17 (as stated): the concretizer falls back exactly when some argument
\* does not have a single satisfying value; an argument with exactly one
\* value, symbolic variables pinned by the constraints included, is
\* evaluated and appended and does not demote the attempt to LOCAL.
C17_FallbackIffNotSingleValued ==
    ArgsExtracted => ((pc = "LOCAL") <=> SomeArgNotSingleValued)

\* C17 (amended): the concretizer falls back exactly when the expression of
\* some argument is symbolic (holds symbolic variables), whatever the number
\* of its values; otherwise every argument has been evaluated to its one
\* value and appended in order.
C17_FallbackIffSymbolicExpr ==
    ArgsExtracted =>
      /\ (pc = "LOCAL") <=> SomeArgSymbolic
      /\ pc # "LOCAL" =>
           /\ Len(args) = Len(syscall_proto[1])
           /\ \A i \in 1 .. Len(args) : cc_args[i - 1].vals = { args[i] }

\* The fallback was taken although every argument has exactly one value: one
\* of them is a symbolic expression that the constraints pin.
C17_Witness ==
    /\ ArgsExtracted
    /\ pc = "LOCAL"
    /\ ~ SomeArgNotSingleValued
    /\ \E i \in 0 .. Len(syscall_proto[1]) - 1 :
         cc_args[i].symbolic /\ cc_args[i].vals = { 9 }

\* C18: without a hint, with a number of declared ABIs other than one and no
\* range holding the number, the attempt ends in FATAL (UnresolvedAbi), with
\* the bypass-unsupported-syscalls option set or not: nothing is delegated,
\* no name or prototype is looked up, no successor is added and the agent is
\* not invoked.
C18_UnresolvedAbiIsFatal ==
    ( /\ AbiResolutionDone
      /\ abi_hint = None
      /\ Len(syscall_abis) # 1
      /\ RangesHolding(num) = {} )
    => ( /\ pc = "FATAL"
         /\ error = "UnresolvedAbi"
         /\ super_calls = 0
         /\ syscall_abi = None
         /\ syscall_name = None
         /\ syscall_proto = << >>
         /\ NoSuccessorAdded
         /\ bureau_calls = << >> )

\* Number 600, which neither of two declared ranges holds, was rejected with
\* the option set.
C18_Witness ==
    /\ pc = "FATAL"
    /\ error = "UnresolvedAbi"
    /\ bypass_option
    /\ Len(syscall_abis) = 2
    /\ num = 600

\* C19: the bypass list is consulted before the prototype is looked up: a
\* bypassed name without prototype is in LOCAL, with no error, also when the
\* bypass-unsupported-syscalls option is not set; UnknownPrototype is raised
\* only for a name that is not bypassed and only after the bypass test.
C19_BypassBeforePrototype ==
    /\ ( /\ PastBypassCheck
         /\ syscall_name # None
         /\ syscall_name \in DocumentedBypassSet(syscall_abi)
         /\ get_prototype(syscall_abi, syscall_name) = << >> )
       => ( /\ pc = "LOCAL"
            /\ error = NoError
            /\ syscall_proto = << >> )
    /\ error = "UnknownPrototype" =>
         /\ PastBypassCheck
         /\ syscall_name # None
         /\ syscall_name \notin DocumentedBypassSet(syscall_abi)
         /\ ~ bypass_option

\* 'exit', bypassed and without prototype, was delegated with the option not
\* set.
C19_Witness ==
    /\ pc = "LOCAL"
    /\ syscall_name = "exit"
    /\ get_prototype(syscall_abi, syscall_name) = << >>
    /\ ~ bypass_option

(***************************************************************************)
(* Termination                                                             *)
(***************************************************************************)
\* process_successors is sequential code and the agent answers: a statement
\* that can be executed is executed.
FairSpec == Spec /\ WF_vars(Next)

\* The statements of process_successors in program order.
Statements ==
    << "ENTRY", "eval_num", "syscall_abi", "lookup_name", "check_bypass",
       "lookup_proto", "extract_args", "fill_artifacts", "inspect_before",
       "invoke_syscall", "add_successor", "inspect_after", "finish" >>

\* How far the attempt has come: the position of the statement, the
\* iterations of the argument loop made, and past everything in an outcome.
Progress ==
    IF pc \in Terminal
    THEN Len(Statements) + MaxArgs + 1
    ELSE (CHOOSE i \in 1 .. Len(Statements) : Statements[i] = pc) + Len(args)

\* C20: every attempt ends in exactly one of LOCAL, FATAL and DONE and stays
\* there; every step moves forward, so no statement is executed twice for the
\* same argument index; the next mixin is called at most once, exactly in
\* LOCAL; at most one successor is added, and one is present in an outcome
\* exactly in DONE.
C20_Terminates ==
    /\ <>(pc \in Terminal)
    /\ [][pc \notin Terminal /\ Progress' > Progress]_vars
    /\ [](/\ super_calls <= 1
          /\ (super_calls = 1) <=> (pc = "LOCAL")
          /\ (error # NoError) <=> (pc = "FATAL")
          /\ NoSuccessorAdded \/ OneSuccessorAdded
          /\ pc \in Terminal => (OneSuccessorAdded <=> pc = "DONE"))

\* An attempt went through every statement and three iterations of the
\* argument loop.
C20_Witness ==
    /\ pc = "DONE"
    /\ Len(args) = MaxArgs
    /\ super_calls = 0
    /\ OneSuccessorAdded

=============================================================================
